---- MODULE Spec2Model ----
(***************************************************************************)
(* peteraba/sortedmap: a map (items) and a sorted slice of its keys        *)
(* (sortedKeys) behind one sync.RWMutex (mu).                              *)
(*                                                                         *)
(* Go slices are modelled as they are: a slice is a header (backing array, *)
(* length) and the backing arrays live in `heap`.  append writes in place  *)
(* while the capacity lasts and allocates a larger array otherwise; copy   *)
(* is a memmove inside one array.  An array is named by its capacity:      *)
(* append only ever allocates a strictly larger array than the one it      *)
(* leaves, so within one container the capacity identifies the array.      *)
(*                                                                         *)
(* Every goroutine (thread) runs one method at a time; pc is its position  *)
(* in the method, one step per lock operation and per statement group      *)
(* inside the critical section.                                            *)
(***************************************************************************)
EXTENDS Integers, Sequences, FiniteSets, TLC

\* ---------------------------------------------------------------- bounds
NumThreads == 2
MaxKey == 3
MaxConcKey == 2
MaxVal == 1
MaxArgs == 2
MaxCap == 2
MaxWrites == 1
MaxFnCap == 4

Threads == 1..NumThreads
\* K: an ordered key type; its zero value is 0 and is never used as a key here
KeySet == 1..MaxKey
\* T: the value type, 0 being its zero value
ValSet == 0..MaxVal
\* the argument lists of a variadic call
RECURSIVE SeqsUpTo(_, _)
SeqsUpTo(S, n) ==
    IF n = 0 THEN {<<>>}
    ELSE LET shorter == SeqsUpTo(S, n - 1)
         IN  shorter \cup {Append(s, x) : s \in {q \in shorter : Len(q) = n - 1}, x \in S}
ArgLists == SeqsUpTo(KeySet, MaxArgs)
\* the keys that concurrent goroutines use
ConcKeySet == 1..MaxConcKey

VARIABLES
    items,       \* sm.items: map[K]T, a function on the present keys
    sortedKeys,  \* sm.sortedKeys: []K, a slice header [arr, len]
    heap,        \* the backing arrays of the []K slices, by capacity
    mu,          \* sm.mu: sync.RWMutex
    pc,          \* each goroutine's position in its method
    op,          \* the method a goroutine runs and its arguments
    ret,         \* what the method has returned (or accumulates)
    lkeys,       \* a method's local slice: Items' `keys`, a helper's result
    ref,         \* ghost: the key/value map in lock-acquisition order
    snap,        \* ghost: the stores as Items' key read, or a noted call, found them
    held,        \* a caller's kept result of Keys() and what it held then
    intent,      \* ghost: the key/value map in call order (disjoint writers)
    twin         \* a second container, made by New(), that is given the same calls

vars == <<items, sortedKeys, heap, mu, pc, op, ret, lkeys, ref, snap, held, intent, twin>>

\* ------------------------------------------------------------ Go's values
NilSlice == [arr |-> -1, len |-> 0]
EmptyMap == [k \in {} |-> 0]
ErrKeyDoesNotExist == "key does not exist"
OutOfSync == "sorted keys and items are out of sync"

\* m[k] of a Go map: the zero value when k is absent
MapGet(m, k) == IF k \in DOMAIN m THEN m[k] ELSE 0
\* m[k] = v
MapPut(m, k, v) == [x \in (DOMAIN m) \cup {k} |-> IF x = k THEN v ELSE m[x]]
\* delete(m, k)
MapDelete(m, k) == [x \in (DOMAIN m) \ {k} |-> m[x]]

\* the elements a slice shows: the first len cells of its backing array
Content(h, sl) == IF sl.arr \in DOMAIN h THEN SubSeq(h[sl.arr], 1, sl.len) ELSE <<>>
Cap(h, sl) == Len(h[sl.arr])

\* make([]K, 0, c)
MakeArray(c) == [j \in 1..c |-> 0]

\* the capacity append grows a full slice of capacity c to (runtime.growslice,
\* small slices): 1 from 0, else double
GrowCap(c) == IF c = 0 THEN 1 ELSE 2 * c

\* slice = append(slice, value)
AppendSlice(h, sl, value) ==
    IF sl.len < Cap(h, sl)
    THEN [h |-> [h EXCEPT ![sl.arr][sl.len + 1] = value],
          s |-> [arr |-> sl.arr, len |-> sl.len + 1]]
    ELSE LET c == GrowCap(Cap(h, sl))
             a == [j \in 1..c |-> IF j <= sl.len THEN h[sl.arr][j]
                                  ELSE IF j = sl.len + 1 THEN value ELSE 0]
         IN  [h |-> [x \in (DOMAIN h) \cup {c} |-> IF x = c THEN a ELSE h[x]],
              s |-> [arr |-> c, len |-> sl.len + 1]]

\* sort.Search(len(slice), func(i) { return slice[i] >= value }), indices from 0
RECURSIVE Search(_, _, _, _)
Search(view, value, i, j) ==
    IF i < j
    THEN LET m == (i + j) \div 2
         IN  IF ~(view[m + 1] >= value)
             THEN Search(view, value, m + 1, j)
             ELSE Search(view, value, i, m)
    ELSE i

\* copy(slice[i+1:], slice[i:]) on a slice of length n: cells i+1..n-1 take i..n-2
ShiftRight(a, i, n) ==
    [j \in 1..Len(a) |-> IF j - 1 >= i + 1 /\ j - 1 <= n - 1 THEN a[j - 1] ELSE a[j]]

\* copy(slice[i:], slice[i+1:]) on a slice of length n: cells i..n-2 take i+1..n-1
ShiftLeft(a, i, n) ==
    [j \in 1..Len(a) |-> IF j - 1 >= i /\ j - 1 <= n - 2 THEN a[j + 1] ELSE a[j]]

\* a mutant of insertSorted: the copy that makes room is missing
InsertSortedNoShift(h, sl, value) ==
    LET i  == Search(Content(h, sl), value, 0, sl.len)
        ap == AppendSlice(h, sl, value)
    IN  [h |-> [ap.h EXCEPT ![ap.s.arr][i + 1] = value], s |-> ap.s]

\* a mutant of insertSorted: the value is appended and left at the end
InsertSortedAtEnd(h, sl, value) == AppendSlice(h, sl, value)

insertSorted(h, sl, value) ==
    LET i  == Search(Content(h, sl), value, 0, sl.len)
        ap == AppendSlice(h, sl, value)
        sh == ShiftRight(ap.h[ap.s.arr], i, ap.s.len)
    IN  [h |-> [ap.h EXCEPT ![ap.s.arr] = [sh EXCEPT ![i + 1] = value]],
         s |-> ap.s]

\* a mutant of deleteSorted: the slice is not shortened after the copy
DeleteSortedNoShrink(h, sl, value) ==
    LET view == Content(h, sl)
        i    == Search(view, value, 0, sl.len)
    IN  IF i < sl.len /\ view[i + 1] = value
        THEN [h |-> [h EXCEPT ![sl.arr] = ShiftLeft(h[sl.arr], i, sl.len)], s |-> sl]
        ELSE [h |-> h, s |-> sl]

\* a mutant of deleteSorted: the element the search stops at is removed without
\* the test that it is the value
DeleteSortedAtIndex(h, sl, value) ==
    LET view == Content(h, sl)
        i    == Search(view, value, 0, sl.len)
    IN  IF i < sl.len
        THEN [h |-> [h EXCEPT ![sl.arr] = ShiftLeft(h[sl.arr], i, sl.len)],
              s |-> [arr |-> sl.arr, len |-> sl.len - 1]]
        ELSE [h |-> h, s |-> sl]

deleteSorted(h, sl, value) ==
    LET view == Content(h, sl)
        i    == Search(view, value, 0, sl.len)
    IN  IF i < sl.len /\ view[i + 1] = value
        THEN [h |-> [h EXCEPT ![sl.arr] = ShiftLeft(h[sl.arr], i, sl.len)],
              s |-> [arr |-> sl.arr, len |-> sl.len - 1]]
        ELSE [h |-> h, s |-> sl]

\* sm.has(key)
has(key) == key \in DOMAIN items

\* The arrays still referenced after a step; the others are garbage.  A cell
\* that no referencing slice reaches (beyond the longest of them) is never read
\* before append overwrites it, and is kept zeroed.
LiveSlices == {sortedKeys'} \cup {lkeys'[t] : t \in Threads}
                  \cup {ret'[t].sl : t \in Threads} \cup {held'[t].sl : t \in Threads}
Reach(x) ==
    LET lens == {sl.len : sl \in {l \in LiveSlices : l.arr = x}}
    IN  CHOOSE n \in lens : \A m \in lens : m <= n
Collect(h) ==
    [x \in (DOMAIN h) \cap {sl.arr : sl \in LiveSlices} |->
        [j \in 1..Len(h[x]) |-> IF j <= Reach(x) THEN h[x][j] ELSE 0]]

\* ------------------------------------------------------------- the state
\* absent and overlap are ghosts: the key was absent at the call; another
\* goroutine was inside a call when this one began
NoOp == [name |-> "none", key |-> 0, val |-> 0, keys |-> <<>>, i |-> 0,
         absent |-> FALSE, overlap |-> FALSE]
NoRet == [kind |-> "none", v |-> 0, b |-> FALSE, err |-> "", sl |-> NilSlice, vals |-> <<>>]
\* ghost: the map and the key order when Items read the key order
NoSnap == [m |-> EmptyMap, ks |-> <<>>]
\* writes counts the caller's assignments to elements of slices it kept
NoHeld == [sl |-> NilSlice, seen |-> <<>>, writes |-> 0]

\* New(): an empty map and make([]K, 0)
New ==
    /\ items = EmptyMap
    /\ sortedKeys = [arr |-> 0, len |-> 0]
    /\ heap = (0 :> MakeArray(0))

\* NewWithCapacity(capacity): make(map[K]T, capacity), make([]K, 0, capacity)
NewWithCapacity(capacity) ==
    /\ items = EmptyMap
    /\ sortedKeys = [arr |-> capacity, len |-> 0]
    /\ heap = (capacity :> MakeArray(capacity))

\* NewFrom(key, value): items[key] = value, sortedKeys = []K{key}
NewFrom(key, value) ==
    /\ items = MapPut(EmptyMap, key, value)
    /\ sortedKeys = [arr |-> 1, len |-> 1]
    /\ heap = (1 :> <<key>>)

\* The twin: the container New() makes, with the slice its caller keeps.  fresh
\* holds until the first call.
TwinNew ==
    [items |-> EmptyMap, sortedKeys |-> [arr |-> 0, len |-> 0],
     heap |-> (0 :> MakeArray(0)), held |-> NilSlice, fresh |-> TRUE]

\* the arrays of the twin that its slices still refer to
TwinCollect(tw) ==
    [tw EXCEPT !.heap = [x \in (DOMAIN tw.heap) \cap {tw.sortedKeys.arr, tw.held.arr}
                            |-> tw.heap[x]]]

\* Set(key, value) on the twin, from call to return
TwinSet(tw, key, value) ==
    IF key \in DOMAIN tw.items
    THEN [tw EXCEPT !.items = MapPut(@, key, value)]
    ELSE LET r == insertSorted(tw.heap, tw.sortedKeys, key)
         IN  TwinCollect([tw EXCEPT !.items = MapPut(@, key, value),
                                    !.sortedKeys = r.s, !.heap = r.h])

\* Delete(keys...) on the twin, from call to return
RECURSIVE TwinDelete(_, _)
TwinDelete(tw, keys) ==
    IF keys = <<>> THEN tw
    ELSE LET key == Head(keys)
             r   == deleteSorted(tw.heap, tw.sortedKeys, key)
             nxt == IF key \in DOMAIN tw.items
                    THEN [tw EXCEPT !.items = MapDelete(@, key),
                                    !.sortedKeys = r.s, !.heap = r.h]
                    ELSE tw
         IN  TwinDelete(nxt, Tail(keys))

\* the call o made on the twin
TwinApply(tw, o) ==
    CASE o.name = "Set" -> TwinSet(tw, o.key, o.val)
      [] o.name = "Delete" -> TwinDelete(tw, o.keys)
      [] OTHER -> tw

Init ==
    /\ \/ New /\ twin = TwinNew
       \/ \E capacity \in 0..MaxCap : NewWithCapacity(capacity) /\ twin = TwinNew
       \/ \E key \in KeySet, value \in ValSet :
             NewFrom(key, value) /\ twin = TwinSet(TwinNew, key, value)
    /\ mu = [w |-> 0, active |-> FALSE, r |-> [t \in Threads |-> 0]]
    /\ pc = [t \in Threads |-> "idle"]
    /\ op = [t \in Threads |-> NoOp]
    /\ ret = [t \in Threads |-> NoRet]
    /\ lkeys = [t \in Threads |-> NilSlice]
    /\ ref = items
    /\ snap = [t \in Threads |-> NoSnap]
    /\ held = [t \in Threads |-> NoHeld]
    /\ intent = items

\* --------------------------------------------------------- sync.RWMutex
\* the read locks held, over all goroutines
RECURSIVE SumR(_, _)
SumR(r, S) == IF S = {} THEN 0 ELSE LET t == CHOOSE x \in S : TRUE IN r[t] + SumR(r, S \ {t})
ReadersActive == SumR(mu.r, Threads)

\* a mutant of LockMode: Set takes the shared lock
LockModeSetShared(name) == IF name = "Delete" THEN "W" ELSE "R"

\* a mutant of LockMode: Delete takes the shared lock
LockModeDeleteShared(name) == IF name = "Set" THEN "W" ELSE "R"

\* which lock a method takes: mu.Lock() in Set and Delete, mu.RLock() in the rest
LockMode(name) == IF name \in {"Set", "Delete"} THEN "W" ELSE "R"

\* the first statement of a method after its lock and defer
Body(name) ==
    CASE name = "Set" -> "set_ins"
      [] name = "Delete" -> "del_loop"
      [] name = "Items" -> "klock"
      [] OTHER -> "read"

\* where a goroutine blocked in RLock goes on once it is given the lock
Resume(t) == IF pc[t] = "klockw" THEN "kread" ELSE Body(op[t].name)
BlockedInRLock(t) ==
    \/ pc[t] = "klockw"
    \/ pc[t] = "lockw" /\ LockMode(op[t].name) = "R"

\* the ghost map follows the writers in the order they get the lock
RECURSIVE DeleteAll(_, _)
DeleteAll(m, ks) == IF ks = <<>> THEN m ELSE DeleteAll(MapDelete(m, Head(ks)), Tail(ks))
Linearize(m, o) ==
    CASE o.name = "Set" -> MapPut(m, o.key, o.val)
      [] o.name = "Delete" -> DeleteAll(m, o.keys)
      [] OTHER -> m

\* ------------------------------------------------------------ the calls
Call(t, o) ==
    /\ pc[t] = "idle"
    /\ op' = [op EXCEPT ![t] = o]
    /\ pc' = [pc EXCEPT ![t] = "lock"]
    /\ UNCHANGED <<items, sortedKeys, heap, mu, ret, lkeys, ref, snap, held>>

CallSet(t, key, value) ==
    /\ Call(t, [NoOp EXCEPT !.name = "Set", !.key = key, !.val = value, !.absent = ~has(key)])
    /\ UNCHANGED <<intent, twin>>

CallDelete(t, keys) ==
    /\ Call(t, [NoOp EXCEPT !.name = "Delete", !.keys = keys])
    /\ UNCHANGED <<intent, twin>>

CallGet(t, key) ==
    /\ Call(t, [NoOp EXCEPT !.name = "Get", !.key = key])
    /\ UNCHANGED <<intent, twin>>

CallHas(t, key) ==
    /\ Call(t, [NoOp EXCEPT !.name = "Has", !.key = key])
    /\ UNCHANGED <<intent, twin>>

CallLen(t) ==
    /\ Call(t, [NoOp EXCEPT !.name = "Len"])
    /\ UNCHANGED <<intent, twin>>

CallKeys(t) ==
    /\ Call(t, [NoOp EXCEPT !.name = "Keys"])
    /\ UNCHANGED <<intent, twin>>

CallItems(t) ==
    /\ Call(t, [NoOp EXCEPT !.name = "Items"])
    /\ UNCHANGED <<intent, twin>>

\* --------------------------------------------------- the lock operations
\* a mutant of Lock: the method goes on without waiting for the writer inside
LockNotExclusive(t) ==
    /\ pc[t] = "lock"
    /\ LockMode(op[t].name) = "W"
    /\ mu' = [mu EXCEPT !.w = t, !.active = TRUE]
    /\ pc' = [pc EXCEPT ![t] = Body(op[t].name)]
    /\ ref' = Linearize(ref, op[t])
    /\ UNCHANGED <<items, sortedKeys, heap, op, ret, lkeys, snap, held, intent, twin>>

\* sm.mu.Lock(): take the writers' mutex, announce the writer to the readers,
\* and go on at once when no read lock is held
Lock(t) ==
    /\ pc[t] = "lock"
    /\ LockMode(op[t].name) = "W"
    /\ mu.w = 0
    /\ IF ReadersActive = 0
       THEN /\ mu' = [mu EXCEPT !.w = t, !.active = TRUE]
            /\ pc' = [pc EXCEPT ![t] = Body(op[t].name)]
            /\ ref' = Linearize(ref, op[t])
       ELSE /\ mu' = [mu EXCEPT !.w = t]
            /\ pc' = [pc EXCEPT ![t] = "lockw"]
            /\ UNCHANGED ref
    /\ UNCHANGED <<items, sortedKeys, heap, op, ret, lkeys, snap, held, intent, twin>>

\* the announced writer goes on when the last read lock is released
LockGranted(t) ==
    /\ pc[t] = "lockw"
    /\ LockMode(op[t].name) = "W"
    /\ mu.w = t
    /\ ReadersActive = 0
    /\ mu' = [mu EXCEPT !.active = TRUE]
    /\ pc' = [pc EXCEPT ![t] = Body(op[t].name)]
    /\ ref' = Linearize(ref, op[t])
    /\ UNCHANGED <<items, sortedKeys, heap, op, ret, lkeys, snap, held, intent, twin>>

\* sm.mu.RLock(): granted unless a writer holds the lock or has announced itself
RLock(t) ==
    /\ pc[t] = "lock"
    /\ LockMode(op[t].name) = "R"
    /\ IF mu.w = 0
       THEN /\ mu' = [mu EXCEPT !.r[t] = @ + 1]
            /\ pc' = [pc EXCEPT ![t] = Body(op[t].name)]
            /\ ref' = Linearize(ref, op[t])
       ELSE /\ pc' = [pc EXCEPT ![t] = "lockw"]
            /\ UNCHANGED <<mu, ref>>
    /\ UNCHANGED <<items, sortedKeys, heap, op, ret, lkeys, snap, held, intent, twin>>

\* defer sm.mu.Unlock(): the readers blocked meanwhile all get their read lock
Unlock(t) ==
    /\ pc[t] = "unlock"
    /\ LockMode(op[t].name) = "W"
    /\ mu' = [w |-> 0, active |-> FALSE,
              r |-> [u \in Threads |-> IF BlockedInRLock(u) THEN mu.r[u] + 1 ELSE mu.r[u]]]
    /\ pc' = [u \in Threads |->
                IF u = t THEN "done" ELSE IF BlockedInRLock(u) THEN Resume(u) ELSE pc[u]]
    /\ UNCHANGED <<items, sortedKeys, heap, op, ret, lkeys, ref, snap, held, intent, twin>>

\* a mutant of RUnlock: the unlock is not deferred, and a panic skips it
RUnlockUnlessPanic(t) ==
    /\ pc[t] = "unlock"
    /\ LockMode(op[t].name) = "R"
    /\ mu' = IF ret[t].kind = "panic" THEN mu ELSE [mu EXCEPT !.r[t] = @ - 1]
    /\ pc' = [pc EXCEPT ![t] = "done"]
    /\ UNCHANGED <<items, sortedKeys, heap, op, ret, lkeys, ref, snap, held, intent, twin>>

\* defer sm.mu.RUnlock()
RUnlock(t) ==
    /\ pc[t] = "unlock"
    /\ LockMode(op[t].name) = "R"
    /\ mu' = [mu EXCEPT !.r[t] = @ - 1]
    /\ pc' = [pc EXCEPT ![t] = "done"]
    /\ UNCHANGED <<items, sortedKeys, heap, op, ret, lkeys, ref, snap, held, intent, twin>>


\* ------------------------------------------------------------------ Set
\* a mutant of SetInsert: the has check is the one made before the lock was taken
SetInsertStaleCheck(t) ==
    /\ pc[t] = "set_ins"
    /\ IF op[t].absent
       THEN LET r == insertSorted(heap, sortedKeys, op[t].key)
            IN  /\ lkeys' = [lkeys EXCEPT ![t] = r.s]
                /\ pc' = [pc EXCEPT ![t] = "set_asg"]
                /\ UNCHANGED <<items, sortedKeys, mu, op, ret, ref, snap, held, intent, twin>>
                /\ heap' = Collect(r.h)
       ELSE /\ pc' = [pc EXCEPT ![t] = "set_put"]
            /\ UNCHANGED <<items, sortedKeys, heap, mu, op, ret, lkeys, ref, snap, held, intent, twin>>

\* a mutant of SetInsert: the key is inserted without the has check
SetInsertAlways(t) ==
    /\ pc[t] = "set_ins"
    /\ LET r == insertSorted(heap, sortedKeys, op[t].key)
       IN  /\ lkeys' = [lkeys EXCEPT ![t] = r.s]
           /\ pc' = [pc EXCEPT ![t] = "set_asg"]
           /\ UNCHANGED <<items, sortedKeys, mu, op, ret, ref, snap, held, intent, twin>>
           /\ heap' = Collect(r.h)

\* if !sm.has(key) { ... insertSorted(sm.sortedKeys, key) ... }: the call, which
\* works on the backing array and returns the new slice
SetInsert(t) ==
    /\ pc[t] = "set_ins"
    /\ IF ~has(op[t].key)
       THEN LET r == insertSorted(heap, sortedKeys, op[t].key)
            IN  /\ lkeys' = [lkeys EXCEPT ![t] = r.s]
                /\ pc' = [pc EXCEPT ![t] = "set_asg"]
                /\ UNCHANGED <<items, sortedKeys, mu, op, ret, ref, snap, held, intent, twin>>
                /\ heap' = Collect(r.h)
       ELSE /\ pc' = [pc EXCEPT ![t] = "set_put"]
            /\ UNCHANGED <<items, sortedKeys, heap, mu, op, ret, lkeys, ref, snap, held, intent, twin>>

\* sm.sortedKeys = (the slice insertSorted returned)
SetAssign(t) ==
    /\ pc[t] = "set_asg"
    /\ sortedKeys' = lkeys[t]
    /\ lkeys' = [lkeys EXCEPT ![t] = NilSlice]
    /\ pc' = [pc EXCEPT ![t] = "set_put"]
    /\ UNCHANGED <<items, mu, op, ret, ref, snap, held, intent, twin>>
    /\ heap' = Collect(heap)

\* a mutant of SetPut: the value of a key that is present is not overwritten
SetPutOnlyNew(t) ==
    /\ pc[t] = "set_put"
    /\ items' = IF has(op[t].key) THEN items ELSE MapPut(items, op[t].key, op[t].val)
    /\ ret' = [ret EXCEPT ![t] = [NoRet EXCEPT !.kind = "self"]]
    /\ pc' = [pc EXCEPT ![t] = "unlock"]
    /\ UNCHANGED <<sortedKeys, heap, mu, op, lkeys, ref, snap, held, intent, twin>>

\* sm.items[key] = value; return sm
SetPut(t) ==
    /\ pc[t] = "set_put"
    /\ items' = MapPut(items, op[t].key, op[t].val)
    /\ ret' = [ret EXCEPT ![t] = [NoRet EXCEPT !.kind = "self"]]
    /\ pc' = [pc EXCEPT ![t] = "unlock"]
    /\ UNCHANGED <<sortedKeys, heap, mu, op, lkeys, ref, snap, held, intent, twin>>

\* --------------------------------------------------------------- Delete
\* a mutant of DeleteLoop: no has check, and the element at the position the
\* search gives is removed whether or not it is the key
DeleteLoopUnchecked(t) ==
    /\ pc[t] = "del_loop"
    /\ IF op[t].i < Len(op[t].keys)
       THEN LET key == op[t].keys[op[t].i + 1]
                i   == Search(Content(heap, sortedKeys), key, 0, sortedKeys.len)
                r   == IF i < sortedKeys.len
                       THEN [h |-> [heap EXCEPT ![sortedKeys.arr] =
                                        ShiftLeft(heap[sortedKeys.arr], i, sortedKeys.len)],
                             s |-> [arr |-> sortedKeys.arr, len |-> sortedKeys.len - 1]]
                       ELSE [h |-> heap, s |-> sortedKeys]
            IN  /\ items' = MapDelete(items, key)
                /\ lkeys' = [lkeys EXCEPT ![t] = r.s]
                /\ pc' = [pc EXCEPT ![t] = "del_asg"]
                /\ UNCHANGED <<sortedKeys, op, ret, mu, ref, snap, held, intent, twin>>
                /\ heap' = Collect(r.h)
       ELSE /\ ret' = [ret EXCEPT ![t] = [NoRet EXCEPT !.kind = "self"]]
            /\ pc' = [pc EXCEPT ![t] = "unlock"]
            /\ UNCHANGED <<items, sortedKeys, heap, op, mu, lkeys, ref, snap, held, intent, twin>>

\* a mutant of DeleteLoop: an absent key ends the loop (break for continue)
DeleteLoopStopsAtAbsent(t) ==
    /\ pc[t] = "del_loop"
    /\ IF op[t].i < Len(op[t].keys) /\ has(op[t].keys[op[t].i + 1])
       THEN LET key == op[t].keys[op[t].i + 1]
                r   == deleteSorted(heap, sortedKeys, key)
            IN  /\ items' = MapDelete(items, key)
                /\ lkeys' = [lkeys EXCEPT ![t] = r.s]
                /\ pc' = [pc EXCEPT ![t] = "del_asg"]
                /\ UNCHANGED <<sortedKeys, op, ret, mu, ref, snap, held, intent, twin>>
                /\ heap' = Collect(r.h)
       ELSE /\ ret' = [ret EXCEPT ![t] = [NoRet EXCEPT !.kind = "self"]]
            /\ pc' = [pc EXCEPT ![t] = "unlock"]
            /\ UNCHANGED <<items, sortedKeys, heap, op, mu, lkeys, ref, snap, held, intent, twin>>

\* for _, key := range keys { if !sm.has(key) { continue }; delete(sm.items, key);
\* ... deleteSorted(sm.sortedKeys, key) ... }; return sm
DeleteLoop(t) ==
    /\ pc[t] = "del_loop"
    /\ IF op[t].i < Len(op[t].keys)
       THEN LET key == op[t].keys[op[t].i + 1]
            IN  IF has(key)
                THEN LET r == deleteSorted(heap, sortedKeys, key)
                     IN  /\ items' = MapDelete(items, key)
                         /\ lkeys' = [lkeys EXCEPT ![t] = r.s]
                         /\ pc' = [pc EXCEPT ![t] = "del_asg"]
                         /\ UNCHANGED <<sortedKeys, op, ret, mu, ref, snap, held, intent, twin>>
                         /\ heap' = Collect(r.h)
                ELSE /\ op' = [op EXCEPT ![t].i = @ + 1]
                     /\ UNCHANGED <<items, sortedKeys, heap, pc, ret, mu, lkeys, ref,
                                    snap, held, intent, twin>>
       ELSE /\ ret' = [ret EXCEPT ![t] = [NoRet EXCEPT !.kind = "self"]]
            /\ pc' = [pc EXCEPT ![t] = "unlock"]
            /\ UNCHANGED <<items, sortedKeys, heap, op, mu, lkeys, ref, snap, held, intent, twin>>

\* sm.sortedKeys = (the slice deleteSorted returned), and on to the next key
DeleteAssign(t) ==
    /\ pc[t] = "del_asg"
    /\ sortedKeys' = lkeys[t]
    /\ lkeys' = [lkeys EXCEPT ![t] = NilSlice]
    /\ op' = [op EXCEPT ![t].i = @ + 1]
    /\ pc' = [pc EXCEPT ![t] = "del_loop"]
    /\ UNCHANGED <<items, mu, ret, ref, snap, held, intent, twin>>
    /\ heap' = Collect(heap)

\* ------------------------------------------------- Get, Len, Keys
\* a mutant of Get: an absent key panics, as in MustGet
GetPanicking(key) ==
    IF key \in DOMAIN items
    THEN [NoRet EXCEPT !.kind = "value", !.v = items[key], !.err = "nil"]
    ELSE [NoRet EXCEPT !.kind = "panic", !.err = ErrKeyDoesNotExist]

\* value, exists := sm.items[key]; the error unless it exists
Get(key) ==
    IF key \in DOMAIN items
    THEN [NoRet EXCEPT !.kind = "value", !.v = items[key], !.err = "nil"]
    ELSE [NoRet EXCEPT !.kind = "value", !.v = 0, !.err = ErrKeyDoesNotExist]

\* Len(): panic unless len(sm.items) == len(sm.sortedKeys); len(sm.items)
\* (Len itself is the length of a sequence here)
SmLen ==
    IF Cardinality(DOMAIN items) # sortedKeys.len
    THEN [NoRet EXCEPT !.kind = "panic", !.err = OutOfSync]
    ELSE [NoRet EXCEPT !.kind = "int", !.v = Cardinality(DOMAIN items)]

\* Has(key): sm.has(key)
Has(key) == [NoRet EXCEPT !.kind = "bool", !.b = has(key)]

\* return sm.sortedKeys: the slice header itself
Keys == [NoRet EXCEPT !.kind = "slice", !.sl = sortedKeys]

\* a mutant of MustGet: an absent key gives the zero value and no panic
MustGetZeroValue(key) == [NoRet EXCEPT !.kind = "value", !.v = MapGet(items, key)]

\* MustGet(key): the value, or panic(ErrKeyDoesNotExist) unless it exists
MustGet(key) ==
    IF key \in DOMAIN items
    THEN [NoRet EXCEPT !.kind = "value", !.v = items[key]]
    ELSE [NoRet EXCEPT !.kind = "panic", !.err = ErrKeyDoesNotExist]

\* for _, key := range keys { if _, exists := sm.items[key]; !exists { return false } }
\* return true
RECURSIVE AllExist(_)
AllExist(keys) ==
    IF keys = <<>> THEN TRUE
    ELSE IF Head(keys) \notin DOMAIN items THEN FALSE
    ELSE AllExist(Tail(keys))

\* for _, key := range keys { if _, exists := sm.items[key]; exists { return true } }
\* return false
RECURSIVE AnyExists(_)
AnyExists(keys) ==
    IF keys = <<>> THEN FALSE
    ELSE IF Head(keys) \in DOMAIN items THEN TRUE
    ELSE AnyExists(Tail(keys))

\* a mutant of HasAll: the loop returns after its first key
HasAllFirstOnly(keys) ==
    [NoRet EXCEPT !.kind = "bool", !.b = (keys = <<>> \/ Head(keys) \in DOMAIN items)]

HasAll(keys) == [NoRet EXCEPT !.kind = "bool", !.b = AllExist(keys)]

HasAny(keys) == [NoRet EXCEPT !.kind = "bool", !.b = AnyExists(keys)]

\* a mutant of Read: looking up an absent key stores the zero value under it
ReadInsertingZero(t) ==
    /\ pc[t] = "read"
    /\ ret' = [ret EXCEPT ![t] =
                 CASE op[t].name = "Get" -> Get(op[t].key)
                   [] op[t].name = "MustGet" -> MustGet(op[t].key)
                   [] op[t].name = "Len" -> SmLen
                   [] op[t].name = "Has" -> Has(op[t].key)
                   [] op[t].name = "HasAll" -> HasAll(op[t].keys)
                   [] op[t].name = "HasAny" -> HasAny(op[t].keys)
                   [] OTHER -> Keys]
    /\ items' = IF op[t].name \in {"Get", "MustGet", "Has"} /\ ~has(op[t].key)
                THEN MapPut(items, op[t].key, 0)
                ELSE items
    /\ pc' = [pc EXCEPT ![t] = "unlock"]
    /\ UNCHANGED <<sortedKeys, heap, mu, op, lkeys, ref, snap, held, intent, twin>>

Read(t) ==
    /\ pc[t] = "read"
    /\ ret' = [ret EXCEPT ![t] =
                 CASE op[t].name = "Get" -> Get(op[t].key)
                   [] op[t].name = "MustGet" -> MustGet(op[t].key)
                   [] op[t].name = "Len" -> SmLen
                   [] op[t].name = "Has" -> Has(op[t].key)
                   [] op[t].name = "HasAll" -> HasAll(op[t].keys)
                   [] op[t].name = "HasAny" -> HasAny(op[t].keys)
                   [] OTHER -> Keys]
    /\ pc' = [pc EXCEPT ![t] = "unlock"]
    /\ UNCHANGED <<items, sortedKeys, heap, mu, op, lkeys, ref, snap, held, intent, twin>>

\* ---------------------------------------------------------------- Items
\* keys := sm.Keys(), whose first statement is sm.mu.RLock(), inside Items' own
\* read lock
ItemsKeysRLock(t) ==
    /\ pc[t] = "klock"
    /\ IF mu.w = 0
       THEN /\ mu' = [mu EXCEPT !.r[t] = @ + 1]
            /\ pc' = [pc EXCEPT ![t] = "kread"]
       ELSE /\ pc' = [pc EXCEPT ![t] = "klockw"]
            /\ UNCHANGED mu
    /\ UNCHANGED <<items, sortedKeys, heap, op, ret, lkeys, ref, snap, held, intent, twin>>

\* Keys' return sm.sortedKeys, assigned to keys
ItemsKeysRead(t) ==
    /\ pc[t] = "kread"
    /\ lkeys' = [lkeys EXCEPT ![t] = sortedKeys]
    /\ snap' = [snap EXCEPT ![t] = [m |-> items, ks |-> Content(heap, sortedKeys)]]
    /\ pc' = [pc EXCEPT ![t] = "kunlock"]
    /\ UNCHANGED <<items, sortedKeys, heap, mu, op, ret, ref, held, intent, twin>>

\* Keys' deferred sm.mu.RUnlock()
ItemsKeysRUnlock(t) ==
    /\ pc[t] = "kunlock"
    /\ mu' = [mu EXCEPT !.r[t] = @ - 1]
    /\ pc' = [pc EXCEPT ![t] = "it_loop"]
    /\ UNCHANGED <<items, sortedKeys, heap, op, ret, lkeys, ref, snap, held, intent, twin>>

\* for _, key := range keys { values = append(values, sm.items[key]) }; return values
ItemsLoop(t) ==
    /\ pc[t] = "it_loop"
    /\ IF Len(ret[t].vals) < lkeys[t].len
       THEN /\ ret' = [ret EXCEPT ![t].vals =
                         Append(@, MapGet(items, heap[lkeys[t].arr][Len(@) + 1]))]
            /\ UNCHANGED pc
       ELSE /\ ret' = [ret EXCEPT ![t].kind = "values"]
            /\ pc' = [pc EXCEPT ![t] = "unlock"]
    /\ UNCHANGED <<items, sortedKeys, heap, mu, op, lkeys, ref, snap, held, intent, twin>>

\* ------------------------------------------------------------ the caller
\* the call has returned; the caller drops the result before its next call
Return(t) ==
    /\ pc[t] = "done"
    /\ pc' = [pc EXCEPT ![t] = "idle"]
    /\ op' = [op EXCEPT ![t] = NoOp]
    /\ ret' = [ret EXCEPT ![t] = NoRet]
    /\ lkeys' = [lkeys EXCEPT ![t] = NilSlice]
    /\ snap' = [snap EXCEPT ![t] = NoSnap]
    /\ UNCHANGED <<items, sortedKeys, mu, ref, held, intent, twin>>
    /\ heap' = Collect(heap)

\* a caller keeps the slice Keys() returned
CallerKeep(t) ==
    /\ pc[t] = "done"
    /\ op[t].name = "Keys"
    /\ held[t].sl # ret[t].sl
    /\ held' = [held EXCEPT ![t].sl = ret[t].sl, ![t].seen = Content(heap, ret[t].sl)]
    /\ UNCHANGED <<items, sortedKeys, mu, pc, op, ret, lkeys, ref, snap, intent, twin>>
    /\ heap' = Collect(heap)

\* between its calls, a caller assigns to an element of the slice it keeps
CallerOverwrite(t, i, key) ==
    /\ pc[t] = "idle"
    /\ held[t].sl # NilSlice
    /\ held[t].writes < MaxWrites
    /\ i \in 1..held[t].sl.len
    /\ heap[held[t].sl.arr][i] # key
    /\ heap' = [heap EXCEPT ![held[t].sl.arr][i] = key]
    /\ held' = [held EXCEPT ![t].seen[i] = key, ![t].writes = @ + 1]
    /\ UNCHANGED <<items, sortedKeys, mu, pc, op, ret, lkeys, ref, snap, intent, twin>>

\* the goroutine that owns a key, when the goroutines write disjoint key sets
KeyOwner(key) == ((key - 1) % NumThreads) + 1

Overlaps(t) == \E u \in Threads \ {t} : pc[u] \notin {"idle", "done"}

CallSetOwn(t, key, value) ==
    /\ KeyOwner(key) = t
    /\ Call(t, [NoOp EXCEPT !.name = "Set", !.key = key, !.val = value,
                            !.absent = ~has(key), !.overlap = Overlaps(t)])
    /\ intent' = MapPut(intent, key, value)
    /\ UNCHANGED twin

CallDeleteOwn(t, keys) ==
    /\ \A j \in 1..Len(keys) : KeyOwner(keys[j]) = t
    /\ Call(t, [NoOp EXCEPT !.name = "Delete", !.keys = keys, !.overlap = Overlaps(t)])
    /\ intent' = DeleteAll(intent, keys)
    /\ UNCHANGED twin

\* one step of a goroutine inside Set or Delete
StepWrite(t) ==
    \/ Lock(t)
    \/ Unlock(t)
    \/ SetInsert(t)
    \/ SetAssign(t)
    \/ SetPut(t)
    \/ DeleteLoop(t)
    \/ DeleteAssign(t)

\* one step of a goroutine inside a method that reads
StepRead(t) ==
    \/ RLock(t)
    \/ RUnlock(t)
    \/ Read(t)
    \/ ItemsKeysRLock(t)
    \/ ItemsKeysRead(t)
    \/ ItemsKeysRUnlock(t)
    \/ ItemsLoop(t)

\* a writer waits for readers to leave only when there are other goroutines
\* that read
Step(t) == StepWrite(t) \/ StepRead(t) \/ LockGranted(t)

\* the calls of concurrent goroutines: Delete with one key, as in Delete(key K)
Invoke(t) ==
    \/ \E key \in ConcKeySet, value \in ValSet : CallSet(t, key, value)
    \/ \E key \in ConcKeySet : CallDelete(t, <<key>>)
    \/ \E key \in ConcKeySet : CallGet(t, key)
    \/ CallLen(t)
    \/ CallItems(t)

Next == \E t \in Threads : Invoke(t) \/ Step(t) \/ Return(t)

\* goroutines calling the methods concurrently
Spec == Init /\ [][Next]_vars

\* the calls of one goroutine: every method, Delete with any number of keys
InvokeSeq(t) ==
    \/ \E key \in KeySet, value \in ValSet : CallSet(t, key, value)
    \/ \E keys \in ArgLists : CallDelete(t, keys)
    \/ \E key \in KeySet : CallGet(t, key)
    \/ \E key \in KeySet : CallHas(t, key)
    \/ CallLen(t)
    \/ CallKeys(t)
    \/ CallItems(t)

NextSeq == InvokeSeq(1) \/ StepWrite(1) \/ StepRead(1) \/ Return(1)

\* one goroutine calling the methods one after the other
SeqSpec == Init /\ [][NextSeq]_vars

\* a call of a goroutine that notes, in snap, the stores as the call found them
ObsCall(t, o) ==
    /\ pc[t] = "idle"
    /\ op' = [op EXCEPT ![t] = o]
    /\ pc' = [pc EXCEPT ![t] = "lock"]
    /\ snap' = [snap EXCEPT ![t] = [m |-> items, ks |-> Content(heap, sortedKeys)]]
    /\ UNCHANGED <<items, sortedKeys, heap, mu, ret, lkeys, ref, held, intent, twin>>

\* the calls of one goroutine, every method of the later version included
InvokeObs(t) ==
    \/ \E key \in KeySet, value \in ValSet :
          ObsCall(t, [NoOp EXCEPT !.name = "Set", !.key = key, !.val = value,
                                  !.absent = ~has(key)])
    \/ \E keys \in ArgLists : ObsCall(t, [NoOp EXCEPT !.name = "Delete", !.keys = keys])
    \/ \E key \in KeySet : ObsCall(t, [NoOp EXCEPT !.name = "Get", !.key = key])
    \/ \E key \in KeySet : ObsCall(t, [NoOp EXCEPT !.name = "MustGet", !.key = key])
    \/ \E key \in KeySet : ObsCall(t, [NoOp EXCEPT !.name = "Has", !.key = key])
    \/ \E keys \in ArgLists : ObsCall(t, [NoOp EXCEPT !.name = "HasAll", !.keys = keys])
    \/ \E keys \in ArgLists : ObsCall(t, [NoOp EXCEPT !.name = "HasAny", !.keys = keys])
    \/ ObsCall(t, [NoOp EXCEPT !.name = "Len"])
    \/ ObsCall(t, [NoOp EXCEPT !.name = "Keys"])
    \/ ObsCall(t, [NoOp EXCEPT !.name = "Items"])

NextObs == InvokeObs(1) \/ StepWrite(1) \/ StepRead(1) \/ Return(1)

\* one goroutine calling the methods one after the other, the stores each call
\* found being noted
ObsSpec == Init /\ [][NextObs]_vars

\* a call that is made on the twin as well
TwinCall(t, o) ==
    /\ Call(t, o)
    /\ twin' = [TwinApply(twin, o) EXCEPT !.fresh = FALSE]
    /\ UNCHANGED intent

\* the caller keeps the slice Keys() returned, of the container and of the twin
TwinKeep(t) ==
    /\ pc[t] = "done"
    /\ op[t].name = "Keys"
    /\ held[t].sl # ret[t].sl
    /\ held' = [held EXCEPT ![t].sl = ret[t].sl, ![t].seen = Content(heap, ret[t].sl)]
    /\ twin' = TwinCollect([twin EXCEPT !.held = twin.sortedKeys])
    /\ UNCHANGED <<items, sortedKeys, mu, pc, op, ret, lkeys, ref, snap, intent>>
    /\ heap' = Collect(heap)

NextTwin ==
    \/ \E key \in ConcKeySet, value \in ValSet :
          TwinCall(1, [NoOp EXCEPT !.name = "Set", !.key = key, !.val = value,
                                   !.absent = ~has(key)])
    \/ \E key \in ConcKeySet : TwinCall(1, [NoOp EXCEPT !.name = "Delete", !.keys = <<key>>])
    \/ TwinCall(1, [NoOp EXCEPT !.name = "Len"])
    \/ TwinCall(1, [NoOp EXCEPT !.name = "Keys"])
    \/ TwinCall(1, [NoOp EXCEPT !.name = "Items"])
    \/ StepWrite(1)
    \/ StepRead(1)
    \/ Return(1)
    \/ TwinKeep(1)

\* one goroutine making the same calls on a container made by any constructor
\* and on one made by New(), keeping the slices Keys() returns
TwinSpec == Init /\ [][NextTwin]_vars

\* one goroutine that also keeps the slices Keys() returns and assigns to them
NextCaller ==
    \/ \E key \in ConcKeySet, value \in ValSet : CallSet(1, key, value)
    \/ \E key \in ConcKeySet : CallDelete(1, <<key>>)
    \/ CallLen(1)
    \/ CallKeys(1)
    \/ CallItems(1)
    \/ StepWrite(1)
    \/ StepRead(1)
    \/ Return(1)
    \/ CallerKeep(1)
    \/ \E i \in 1..MaxConcKey, key \in ConcKeySet : CallerOverwrite(1, i, key)

CallerSpec == Init /\ [][NextCaller]_vars

\* goroutines that set and delete concurrently, each its own keys
NextDisjoint ==
    \E t \in Threads :
        \/ \E key \in KeySet, value \in ValSet : CallSetOwn(t, key, value)
        \/ \E keys \in ArgLists : CallDeleteOwn(t, keys)
        \/ StepWrite(t)
        \/ Return(t)

DisjointSpec == Init /\ [][NextDisjoint]_vars


\* ------------------------------------------------------------ observers
\* what Keys() returns in this state
KeysView == Content(heap, sortedKeys)

\* what Items() returns in this state: values[i] = sm.items[keys[i]]
ItemsView == [i \in 1..Len(KeysView) |-> MapGet(items, KeysView[i])]

Range(q) == {q[i] : i \in 1..Len(q)}
StrictlyAscending(q) == \A i, j \in 1..Len(q) : i < j => q[i] < q[j]
Occurrences(q, x) == Cardinality({i \in 1..Len(q) : q[i] = x})

\* the elements of a set of keys in ascending order
RECURSIVE SortedSeq(_)
SortedSeq(S) ==
    IF S = {} THEN <<>>
    ELSE LET m == CHOOSE x \in S : \A y \in S : x <= y
         IN  <<m>> \o SortedSeq(S \ {m})

IsWriter(t) == op[t].name \in {"Set", "Delete"}
\* between the return of its lock call and its unlock call
InCriticalSection(t) == pc[t] \notin {"idle", "lock", "lockw", "done"}
NoWriterInside == \A t \in Threads : ~(IsWriter(t) /\ InCriticalSection(t))
AllReturned == \A t \in Threads : pc[t] \in {"idle", "done"}

\* ------------------------------------- insertSorted and deleteSorted alone
\* a sorted slice of distinct keys, as the callers of the two functions pass:
\* any set of keys in ascending order, in a backing array of any capacity
SortedSlices ==
    {[keys |-> SortedSeq(S), cap |-> c] :
        S \in SUBSET KeySet, c \in 0..MaxFnCap}

InitFn ==
    /\ \E x \in {y \in SortedSlices : Len(y.keys) <= y.cap} :
          /\ sortedKeys = [arr |-> x.cap, len |-> Len(x.keys)]
          /\ heap = (x.cap :> [j \in 1..x.cap |->
                                 IF j <= Len(x.keys) THEN x.keys[j] ELSE 0])
    /\ items = EmptyMap
    /\ mu = [w |-> 0, active |-> FALSE, r |-> [t \in Threads |-> 0]]
    /\ pc = [t \in Threads |-> "idle"]
    /\ op = [t \in Threads |-> NoOp]
    /\ ret = [t \in Threads |-> NoRet]
    /\ lkeys = [t \in Threads |-> NilSlice]
    /\ ref = items
    /\ snap = [t \in Threads |-> NoSnap]
    /\ held = [t \in Threads |-> NoHeld]
    /\ intent = items
    /\ twin = TwinNew

\* slice = insertSorted(slice, value), with a value the slice does not hold, as
\* in Set; snap notes the elements of the argument slice
FnInsertSorted(value) ==
    /\ value \notin Range(Content(heap, sortedKeys))
    /\ LET r == insertSorted(heap, sortedKeys, value)
       IN  /\ r.s.arr <= MaxFnCap
           /\ sortedKeys' = r.s
           /\ op' = [op EXCEPT ![1] = [NoOp EXCEPT !.name = "insertSorted", !.key = value]]
           /\ snap' = [snap EXCEPT ![1] = [m |-> EmptyMap, ks |-> Content(heap, sortedKeys)]]
           /\ UNCHANGED <<items, mu, pc, ret, lkeys, ref, held, intent, twin>>
           /\ heap' = Collect(r.h)

\* slice = deleteSorted(slice, value), with any value
FnDeleteSorted(value) ==
    /\ LET r == deleteSorted(heap, sortedKeys, value)
       IN  /\ sortedKeys' = r.s
           /\ op' = [op EXCEPT ![1] = [NoOp EXCEPT !.name = "deleteSorted", !.key = value]]
           /\ snap' = [snap EXCEPT ![1] = [m |-> EmptyMap, ks |-> Content(heap, sortedKeys)]]
           /\ UNCHANGED <<items, mu, pc, ret, lkeys, ref, held, intent, twin>>
           /\ heap' = Collect(r.h)

NextFn ==
    \/ \E value \in KeySet : FnInsertSorted(value)
    \/ \E value \in KeySet : FnDeleteSorted(value)

\* the two slice functions applied to sorted slices
FnSpec == InitFn /\ [][NextFn]_vars

\* ---------------------------------------------------------------- claims

\* C1: after any sequence of Set and Delete calls on a container made by New,
\* NewWithCapacity or NewFrom, Keys() is strictly ascending, so holds no key
\* twice, in whatever order the keys were inserted.
C1_KeysStrictlyAscending ==
    /\ NoWriterInside => StrictlyAscending(KeysView)
    /\ \A t \in Threads :
          pc[t] = "done" /\ op[t].name = "Keys" =>
              StrictlyAscending(Content(heap, ret[t].sl))

\* C1's case: key 1 was set last, after 2 and 3, and stands first
C1_Witness ==
    /\ pc[1] = "done"
    /\ op[1].name = "Set" /\ op[1].key = 1 /\ op[1].absent
    /\ KeysView = <<1, 2, 3>>

\* C2: whenever no Set or Delete is inside its critical section, the keys of
\* items are the elements of sortedKeys, so Len(), len(Keys()) and len(Items())
\* agree, and Items()[i] is the value stored for Keys()[i].
C2_StoresAgree ==
    NoWriterInside =>
        /\ DOMAIN items = Range(KeysView)
        /\ Cardinality(DOMAIN items) = Len(KeysView)
        /\ Len(ItemsView) = Len(KeysView)
        /\ SmLen.kind = "int" /\ SmLen.v = Len(KeysView)
        /\ \A i \in 1..Len(KeysView) :
              KeysView[i] \in DOMAIN items /\ ItemsView[i] = items[KeysView[i]]

\* C2's case: two keys with different values are stored while a reader is inside
C2_Witness ==
    /\ NoWriterInside
    /\ \E t \in Threads : pc[t] = "it_loop"
    /\ KeysView = <<1, 2>> /\ ItemsView = <<1, 0>>

\* C3: the container is a key-to-value map: a key is present with value v exactly
\* when the last Set or Delete that named it was Set(k, v); Has, Get and Len
\* answer accordingly.
C3_RefinesMap ==
    /\ NoWriterInside => items = ref
    /\ \A t \in Threads : pc[t] = "done" =>
          /\ op[t].name = "Has" => ret[t].b = (op[t].key \in DOMAIN ref)
          /\ op[t].name = "Get" =>
                IF op[t].key \in DOMAIN ref
                THEN ret[t].err = "nil" /\ ret[t].v = ref[op[t].key]
                ELSE ret[t].err = ErrKeyDoesNotExist
          /\ op[t].name = "Len" =>
                ret[t].kind = "int" /\ ret[t].v = Cardinality(DOMAIN ref)

\* C3's case: Get finds the value 1 of key 2 while key 1 is absent
C3_Witness ==
    /\ pc[1] = "done" /\ op[1].name = "Get" /\ op[1].key = 2
    /\ ret[1].err = "nil" /\ ret[1].v = 1
    /\ 1 \notin DOMAIN ref /\ 3 \in DOMAIN ref


\* C10: Set(k, v) on a key that is present changes the value stored for k and
\* nothing else: Keys() (length and order), Len() and the values of the other
\* keys are as before.
C10_OverwriteKeepsOrder ==
    [][\A t \in Threads :
          (/\ op[t].name = "Set"
           /\ pc[t] \in {"set_ins", "set_asg", "set_put"}
           /\ pc'[t] # pc[t]
           /\ has(op[t].key))
          => /\ KeysView' = KeysView
             /\ sortedKeys' = sortedKeys
             /\ DOMAIN items' = DOMAIN items
             /\ \A k \in DOMAIN items : k # op[t].key => items'[k] = items[k]
             /\ pc[t] = "set_put" => items'[op[t].key] = op[t].val
             /\ pc'[t] \in {"set_put", "unlock"}]_vars

\* C10's case: a Set of a present key with a new value has returned
C10_Witness ==
    /\ pc[1] = "done" /\ op[1].name = "Set" /\ ~op[1].absent
    /\ op[1].key = 2 /\ op[1].val = 1
    /\ KeysView = <<1, 2, 3>> /\ ItemsView = <<0, 1, 0>>


\* C4: Keys() returns an independent copy: the slice it returned keeps its
\* contents whatever is set or deleted later, and assigning to its elements
\* changes nothing that Keys(), Items() or Len() return later.
C4_KeysReturnsCopy ==
    /\ \A t \in Threads :
          held[t].sl # NilSlice => Content(heap, held[t].sl) = held[t].seen
    /\ NoWriterInside =>
          /\ KeysView = SortedSeq(DOMAIN ref)
          /\ ItemsView = [i \in 1..Len(KeysView) |-> MapGet(ref, KeysView[i])]
          /\ SmLen.kind = "int" /\ SmLen.v = Cardinality(DOMAIN ref)

\* C5: every call returns: whenever a call is under way, some goroutine inside a
\* call can take its next step.
C5_EveryCallReturns ==
    (\E t \in Threads : pc[t] \notin {"idle", "done"}) => ENABLED (\E t \in Threads : Step(t))

\* C6: a writer is inside its critical section only while no other goroutine is
\* inside one; a reader inside its critical section sees the same keys in both
\* stores; Len() never panics.
C6_WritersExclude ==
    /\ \A t \in Threads :
          IsWriter(t) /\ InCriticalSection(t) =>
              \A u \in Threads \ {t} : ~InCriticalSection(u)
    /\ \A t \in Threads :
          ~IsWriter(t) /\ InCriticalSection(t) =>
              /\ DOMAIN items = Range(KeysView)
              /\ Cardinality(DOMAIN items) = sortedKeys.len
    /\ \A t \in Threads : ret[t].kind # "panic"

\* C6's case: Len has read both stores while a Set waits for it to leave
C6_Witness ==
    /\ pc[1] = "lockw" /\ op[1].name = "Set"
    /\ pc[2] = "unlock" /\ op[2].name = "Len" /\ ret[2].kind = "int" /\ ret[2].v = 2

\* C7: when goroutines set and delete disjoint key sets concurrently, then once
\* all have returned the container holds, for every goroutine, what that
\* goroutine's calls alone leave of its keys, and Keys() is the union in
\* ascending order.
C7_DisjointWritersUnion ==
    AllReturned =>
        /\ items = intent
        /\ KeysView = SortedSeq(DOMAIN intent)

\* C7's case: two Sets of new keys that overlapped have both returned
C7_Witness ==
    /\ pc[1] = "done" /\ op[1].name = "Set" /\ op[1].key = 3 /\ op[1].absent
    /\ pc[2] = "done" /\ op[2].name = "Set" /\ op[2].key = 2 /\ op[2].absent
    /\ op[2].overlap
    /\ KeysView = <<1, 2, 3>>

\* C8: when goroutines concurrently Set the same key, absent at their calls, the
\* key is in Keys() once, Len() counts it once, and its value is that of the Set
\* that got the lock last.
C8_SameKeySetOnce ==
    \A t, u \in Threads :
        (/\ t # u
         /\ pc[t] = "done" /\ op[t].name = "Set" /\ op[t].absent
         /\ pc[u] = "done" /\ op[u].name = "Set" /\ op[u].absent
         /\ op[t].key = op[u].key
         /\ NoWriterInside
         /\ op[t].key \in DOMAIN ref)
        => /\ Occurrences(KeysView, op[t].key) = 1
           /\ SmLen.kind = "int" /\ SmLen.v = Cardinality(Range(KeysView))
           /\ op[t].key \in DOMAIN items
           /\ items[op[t].key] = ref[op[t].key]

\* C8's case: both goroutines have Set key 1, absent at both calls, to
\* different values
C8_Witness ==
    /\ pc[1] = "done" /\ op[1].name = "Set" /\ op[1].absent /\ op[1].key = 1
    /\ pc[2] = "done" /\ op[2].name = "Set" /\ op[2].absent /\ op[2].key = 1
    /\ op[1].val # op[2].val
    /\ ref[1] = op[1].val

\* C9: what Items() returns is the values, in ascending key order, of the one
\* state in which it read the key order: no Set or Delete takes effect between
\* that and its reading of the values.
C9_ItemsOneSnapshot ==
    \A t \in Threads :
        pc[t] = "done" /\ op[t].name = "Items" =>
            /\ snap[t].ks = SortedSeq(DOMAIN snap[t].m)
            /\ ret[t].vals = [i \in 1..Len(snap[t].ks) |-> snap[t].m[snap[t].ks[i]]]

\* C9's case: Items has returned two values while a Set that arrived meanwhile
\* still waits
C9_Witness ==
    /\ pc[1] = "done" /\ op[1].name = "Items" /\ ret[1].vals = <<1, 0>>
    /\ pc[2] = "lockw" /\ op[2].name = "Set" /\ op[2].key = 1 /\ op[2].val = 0

\* C11: Delete of keys that are all absent leaves both stores as the call found
\* them (same Len(), Keys(), Items()) and returns normally, with no error and
\* no panic; so a second Delete(k) after Delete(k) changes nothing.
C11_DeleteAbsentIsNoOp ==
    \A t \in Threads :
        (/\ pc[t] = "done" /\ op[t].name = "Delete"
         /\ \A j \in 1..Len(op[t].keys) : op[t].keys[j] \notin DOMAIN snap[t].m)
        => /\ items = snap[t].m
           /\ KeysView = snap[t].ks
           /\ ItemsView = [i \in 1..Len(snap[t].ks) |-> MapGet(snap[t].m, snap[t].ks[i])]
           /\ SmLen.kind = "int" /\ SmLen.v = Len(snap[t].ks)
           /\ ret[t].kind = "self" /\ ret[t].err = ""

\* C11's case: Delete(2) has returned on a container that holds 1 and 3 and not 2
C11_Witness ==
    /\ pc[1] = "done" /\ op[1].name = "Delete" /\ op[1].keys = <<2>>
    /\ snap[1].ks = <<1, 3>> /\ KeysView = <<1, 3>>

\* C12: Delete(k1, ..., kn), n >= 0, absent and repeated keys allowed, leaves what
\* Delete(k1); ...; Delete(kn) leave: every listed key is absent, every other
\* key keeps its value and its place among the others in Keys(), and Len()
\* drops by the number of distinct listed keys that were present.
C12_DeleteManyAsOneByOne ==
    \A t \in Threads :
        pc[t] = "done" /\ op[t].name = "Delete" =>
            LET listed == Range(op[t].keys)
                Unlisted(k) == k \notin listed
            IN  /\ items = DeleteAll(snap[t].m, op[t].keys)
                /\ \A k \in listed : ~has(k)
                /\ \A k \in (DOMAIN snap[t].m) \ listed : has(k) /\ items[k] = snap[t].m[k]
                /\ KeysView = SelectSeq(snap[t].ks, Unlisted)
                /\ SmLen.kind = "int"
                /\ SmLen.v = Len(snap[t].ks) - Cardinality(listed \cap DOMAIN snap[t].m)

\* C12's case: Delete(3, 1) has returned on a container that held 1, 2 and 3
C12_Witness ==
    /\ pc[1] = "done" /\ op[1].name = "Delete" /\ op[1].keys = <<3, 1>>
    /\ snap[1].ks = <<1, 2, 3>> /\ KeysView = <<2>>

\* C13: Get of an absent key returns ErrKeyDoesNotExist as a result, does not
\* panic and leaves the container as it was; Get of a present key returns its
\* value and a nil error.  Set, Delete, Has, HasAll and HasAny give neither this
\* error nor a panic, whether their keys are present or absent.
C13_GetReportsAbsence ==
    \A t \in Threads : pc[t] = "done" =>
        /\ op[t].name = "Get" =>
              /\ ret[t].kind = "value"
              /\ items = snap[t].m /\ KeysView = snap[t].ks
              /\ IF op[t].key \in DOMAIN snap[t].m
                 THEN ret[t].err = "nil" /\ ret[t].v = snap[t].m[op[t].key]
                 ELSE ret[t].err = ErrKeyDoesNotExist
        /\ op[t].name \in {"Set", "Delete", "Has", "HasAll", "HasAny"} =>
              /\ ret[t].kind \in {"self", "bool"}
              /\ ret[t].err = ""

\* C13's case: Get(2) has returned the error on a container that holds 1 and 3
C13_Witness ==
    /\ pc[1] = "done" /\ op[1].name = "Get" /\ op[1].key = 2
    /\ ret[1].kind = "value" /\ ret[1].err = ErrKeyDoesNotExist
    /\ KeysView = <<1, 3>>

\* C14: MustGet(k) returns what Get(k) returns as its value when k is present,
\* and panics with ErrKeyDoesNotExist, returning no value, exactly when k is
\* absent; either way the container's contents are as before.
C14_MustGetPanicsIffAbsent ==
    \A t \in Threads :
        pc[t] = "done" /\ op[t].name = "MustGet" =>
            /\ items = snap[t].m /\ KeysView = snap[t].ks
            /\ (ret[t].kind = "panic") = (op[t].key \notin DOMAIN snap[t].m)
            /\ IF op[t].key \in DOMAIN snap[t].m
               THEN /\ ret[t].kind = "value" /\ ret[t].err = ""
                    /\ ret[t].v = Get(op[t].key).v /\ Get(op[t].key).err = "nil"
                    /\ ret[t].v = snap[t].m[op[t].key]
               ELSE /\ ret[t].err = ErrKeyDoesNotExist
                    /\ Get(op[t].key).err = ErrKeyDoesNotExist

\* C14's case: MustGet(1) has panicked on a container that holds 2 only
C14_Witness ==
    /\ pc[1] = "done" /\ op[1].name = "MustGet" /\ op[1].key = 1
    /\ ret[1].kind = "panic" /\ ret[1].err = ErrKeyDoesNotExist
    /\ KeysView = <<2>>

\* C15: in every state and for every list of keys k1..kn, n >= 0, HasAll is true
\* iff Has(ki) is true for every i (true for no keys) and HasAny is true iff
\* Has(ki) is true for some i (false for no keys).
C15_MembershipLaws ==
    /\ \A keys \in ArgLists :
          /\ HasAll(keys).b = (\A i \in 1..Len(keys) : Has(keys[i]).b)
          /\ HasAny(keys).b = (\E i \in 1..Len(keys) : Has(keys[i]).b)
    /\ HasAll(<<>>).b /\ ~HasAny(<<>>).b
    /\ \A t \in Threads : pc[t] = "done" =>
          /\ op[t].name = "HasAll" =>
                /\ ret[t].kind = "bool"
                /\ ret[t].b = (\A i \in 1..Len(op[t].keys) : Has(op[t].keys[i]).b)
          /\ op[t].name = "HasAny" =>
                /\ ret[t].kind = "bool"
                /\ ret[t].b = (\E i \in 1..Len(op[t].keys) : Has(op[t].keys[i]).b)

\* C15's case: HasAll(1, 2) has returned false where 1 is present and 2 is not
C15_Witness ==
    /\ pc[1] = "done" /\ op[1].name = "HasAll" /\ op[1].keys = <<1, 2>>
    /\ ~ret[1].b /\ HasAny(<<1, 2>>).b
    /\ KeysView = <<1, 3>>

\* C16: New() makes a container with Len() = 0 and empty Keys() and Items();
\* NewFrom(k, v) makes what New().Set(k, v) makes (Len() = 1, Keys() = [k], the
\* value of k is v); and a container made by NewWithCapacity(n) or NewFrom shows
\* its caller, after any calls, what the container made by New() (then Set(k, v))
\* shows after the same calls: the same Len(), Keys() and Items(), and the same
\* elements in the slice the caller kept from Keys().
C16_ConstructorsEquivalent ==
    /\ twin.fresh /\ twin.items = EmptyMap =>
          SmLen.kind = "int" /\ SmLen.v = 0 /\ KeysView = <<>> /\ ItemsView = <<>>
    /\ twin.fresh /\ twin.items # EmptyMap =>
          /\ SmLen.kind = "int" /\ SmLen.v = 1
          /\ \E k \in KeySet : KeysView = <<k>> /\ DOMAIN twin.items = {k}
    /\ pc[1] = "idle" =>
          /\ items = twin.items
          /\ KeysView = Content(twin.heap, twin.sortedKeys)
          /\ ItemsView = [i \in 1..twin.sortedKeys.len |->
                             MapGet(twin.items, twin.heap[twin.sortedKeys.arr][i])]
          /\ SmLen.kind = "int" /\ SmLen.v = Cardinality(DOMAIN twin.items)
          /\ Content(heap, held[1].sl) = Content(twin.heap, twin.held)

\* C17: Get, MustGet, Has, HasAll, HasAny, Len, Keys and Items leave the
\* container unchanged: no step of such a call changes the index store or the
\* order store (its slice, its contents, their order).
C17_ReadersChangeNothing ==
    [][\A t \in Threads :
          (/\ op[t].name \in {"Get", "MustGet", "Has", "HasAll", "HasAny",
                               "Len", "Keys", "Items"}
           /\ pc'[t] # pc[t])
          => /\ items' = items
             /\ sortedKeys' = sortedKeys
             /\ KeysView' = KeysView
             /\ pc'[t] = "done" => items' = snap[t].m /\ KeysView' = snap[t].ks]_vars

\* C17's case: Items has returned from a container holding 1 and 3, which still
\* holds them
C17_Witness ==
    /\ pc[1] = "done" /\ op[1].name = "Items" /\ ret[1].vals = <<0, 1>>
    /\ snap[1].ks = <<1, 3>> /\ KeysView = <<1, 3>> /\ items = snap[1].m

\* C20: the lock is released on every way out of a method.  A goroutine that is
\* not inside a call holds neither the shared nor the exclusive lock; when the
\* call ended in a panic (MustGet on an absent key, Len on a count mismatch) the
\* lock is free for the Set or Delete that follows, which gets it at once.
C20_LockReleasedOnEveryExit ==
    /\ \A t \in Threads :
          pc[t] \in {"idle", "done"} => mu.r[t] = 0 /\ mu.w # t
    /\ \A t \in Threads :
          pc[t] = "done" /\ ret[t].kind = "panic" /\ AllReturned =>
              /\ mu.w = 0 /\ ~mu.active /\ ReadersActive = 0
    /\ \A t \in Threads :
          (/\ pc[t] = "lock" /\ IsWriter(t)
           /\ \A u \in Threads \ {t} : pc[u] \in {"idle", "done"})
          => ENABLED (Lock(t) /\ pc'[t] = Body(op[t].name))

\* C20's case: MustGet(3) has panicked and its read lock is released
C20_Witness ==
    /\ pc[1] = "done" /\ op[1].name = "MustGet" /\ op[1].key = 3
    /\ ret[1].kind = "panic"
    /\ mu.r[1] = 0 /\ mu.w = 0
    /\ KeysView = <<1, 2>>

\* C18, as stated: for a strictly ascending s and a key k not in s,
\* insertSorted(s, k) has k at the leftmost index i such that every element
\* before i is strictly less than k.  (Index 0 is such an index, whatever s
\* and k are.)
C18_KeyAtLeftmostSuchIndex ==
    LET s == snap[1].ks
        k == op[1].key
        r == KeysView
        AllBeforeLess(i) == \A j \in 1..i : r[j] < k
        leftmost == CHOOSE i \in 0..Len(s) :
                        AllBeforeLess(i) /\ \A m \in 0..Len(s) : AllBeforeLess(m) => i <= m
    IN  (op[1].name = "insertSorted" /\ StrictlyAscending(s) /\ k \notin Range(s)) =>
            r[leftmost + 1] = k

\* C18, amended: for a strictly ascending s and a key k not in s,
\* insertSorted(s, k) is one element longer, strictly ascending, holds the
\* elements of s and k, has k at the leftmost index whose element in s is not
\* less than k (the end of s when there is none; the greatest index before
\* which every element is less than k), and keeps the elements of s in their
\* order.
C18_InsertSortedPlacesKey ==
    LET s == snap[1].ks
        k == op[1].key
        r == KeysView
        i == Cardinality({x \in Range(s) : x < k})
        NotK(x) == x # k
    IN  (op[1].name = "insertSorted" /\ StrictlyAscending(s) /\ k \notin Range(s)) =>
            /\ Len(r) = Len(s) + 1
            /\ StrictlyAscending(r)
            /\ Range(r) = Range(s) \cup {k}
            /\ r[i + 1] = k
            /\ \A j \in 1..i : r[j] < k
            /\ i = Search(s, k, 0, Len(s))
            /\ i < Len(s) => s[i + 1] > k
            /\ SelectSeq(r, NotK) = s

\* C18's case: 2 has been inserted between 1 and 3
C18_Witness ==
    /\ op[1].name = "insertSorted" /\ op[1].key = 2
    /\ snap[1].ks = <<1, 3>> /\ KeysView = <<1, 2, 3>>

\* C19: for a strictly ascending s, deleteSorted(s, k) is s without k, one shorter
\* and in the same order, when k is in s, and is s itself when k is not in s (s
\* empty and k above every element included), with no error.
C19_DeleteSortedRemovesKey ==
    LET s == snap[1].ks
        k == op[1].key
        r == KeysView
        NotK(x) == x # k
    IN  (op[1].name = "deleteSorted" /\ StrictlyAscending(s)) =>
            /\ r = SelectSeq(s, NotK)
            /\ k \in Range(s) => Len(r) = Len(s) - 1 /\ k \notin Range(r)
            /\ k \notin Range(s) => r = s

\* C19's case: 2, which lies between the elements, was not found and nothing
\* was removed
C19_Witness ==
    /\ op[1].name = "deleteSorted" /\ op[1].key = 2
    /\ snap[1].ks = <<1, 3>> /\ KeysView = <<1, 3>>

====
